---- MODULE Spec2Model ----
(***************************************************************************)
(* A model of voicebox_pytorch/voicebox_pytorch.py: module construction    *)
(* (the asserted preconditions), Transformer.forward with its skip stack,  *)
(* Attention.forward's rotary step, and the forward /                      *)
(* forward_with_cond_scale entry points of DurationPredictor and VoiceBox. *)
(*                                                                         *)
(* Conventions.  A tensor [B, N] is a sequence of B sequences of length N; *)
(* the feature axis of x, cond and target is carried as one integer per    *)
(* position plus the width of the axis (x_dim, cond_dim).  None is the     *)
(* empty sequence.  Real numbers are exact rationals [n, d]; d = 0 stands  *)
(* for a non-finite value (inf or nan).  Angles are counted in quarter     *)
(* turns, so that cos and sin are exact.                                   *)
(***************************************************************************)
EXTENDS Integers, Sequences, FiniteSets, TLC

VARIABLES
    model,          \* the constructed module, or NoModel
    ctor,           \* the constructor call: arguments, outcome, submodules built
    pc,             \* position of the running call
    entry,          \* entry point the caller invoked
    args,           \* arguments of the running (or last) call
    npass,          \* forward passes started by the running call
    fwd,            \* the running (or last) forward pass: its locals
    passes,         \* the passes the call has completed, in order
    result,         \* what the call returned, or how it failed
    inference_mode, \* torch's inference-mode flag
    mode_before,    \* the flag as the caller had it when it made the call
    tr,             \* locals of a Transformer.forward run
    att             \* arguments and result of an Attention.forward rotary step

vars == <<model, ctor, pc, entry, args, npass, fwd, passes, result,
          inference_mode, mode_before, tr, att>>

---------------------------------------------------------------------------
(* Bounds of the model *)

MaxDepth == 4
MaxLen == 2

Depths == 1..MaxDepth
BatchSizes == {1, 2}
KernelSizes == {2, 3}
Dims == {2, 3}
NumPhonemeTokens == 2
PhonemeIds == 0..(NumPhonemeTokens - 1)
CondVals == {0, 1}
XVals == {1}
\* cond_drop_prob in tenths: 0.0, 0.5, 1.0
Probs == {0, 5, 10}
Scales == {0, 1, 3}

None == <<>>

---------------------------------------------------------------------------
(* helper functions, lines 15-25 *)

exists(val) == val /= None

divisible_by(num, den) == (num % den) = 0

is_odd(n) == ~divisible_by(n, 2)

---------------------------------------------------------------------------
(* exact rationals *)

RECURSIVE GCD(_, _)
GCD(a, b) == IF b = 0 THEN a ELSE GCD(b, a % b)

Abs(a) == IF a < 0 THEN -a ELSE a

Rat(n, d) ==
    IF d = 0 THEN [n |-> 1, d |-> 0]
    ELSE LET g == GCD(Abs(n), Abs(d))
             s == IF d < 0 THEN -1 ELSE 1
         IN  [n |-> s * (n \div g), d |-> s * (d \div g)]

RatInt(a) == [n |-> a, d |-> 1]

RatAdd(a, b) ==
    IF a.d = 0 \/ b.d = 0 THEN Rat(1, 0)
    ELSE Rat(a.n * b.d + b.n * a.d, a.d * b.d)

RatSub(a, b) == RatAdd(a, [n |-> -b.n, d |-> b.d])

RatMul(a, b) ==
    IF a.d = 0 \/ b.d = 0 THEN Rat(1, 0) ELSE Rat(a.n * b.n, a.d * b.d)

\* IEEE division: a zero divisor gives inf or nan, never an exception
RatDiv(a, b) ==
    IF a.d = 0 \/ b.d = 0 THEN Rat(1, 0) ELSE Rat(a.n * b.d, a.d * b.n)

RatLeq(a, b) == a.n * b.d <= b.n * a.d

RatMax(a, b) == IF RatLeq(a, b) THEN b ELSE a

Finite(r) == r.d /= 0

RECURSIVE SumSeq(_)
SumSeq(s) == IF s = <<>> THEN 0 ELSE Head(s) + SumSeq(Tail(s))

RECURSIVE RatSumSeq(_)
RatSumSeq(s) == IF s = <<>> THEN RatInt(0) ELSE RatAdd(Head(s), RatSumSeq(Tail(s)))

Flatten(t) == [i \in 1..(Len(t) * Len(t[1])) |->
                 t[((i - 1) \div Len(t[1])) + 1][((i - 1) % Len(t[1])) + 1]]

---------------------------------------------------------------------------
(* Construction: the asserted preconditions of the three submodules and   *)
(* the order in which DurationPredictor and VoiceBox build them.           *)

\* LearnedSinusoidalPosEmb.__init__, lines 42-46
LearnedSinusoidalPosEmb_init(dim) ==
    IF ~divisible_by(dim, 2)
    THEN [ok |-> FALSE, half_dim |-> 0]
    ELSE [ok |-> TRUE, half_dim |-> dim \div 2]

\* ConvPositionEmbed.__init__, lines 83-97
ConvPositionEmbed_init(dim, kernel_size) ==
    IF ~is_odd(kernel_size)
    THEN [ok |-> FALSE, groups |-> 0, padding |-> 0]
    ELSE [ok |-> TRUE, groups |-> dim, padding |-> kernel_size \div 2]

\* the loop of Transformer.__init__, lines 182-190: one entry per layer,
\* TRUE when the layer owns a skip combiner (nn.Linear), FALSE when None
MakeLayers(depth) == [layer \in 1..depth |-> layer > (depth \div 2)]

\* variant: the constructor without its assert on the depth
Transformer_init_unchecked(depth) == [ok |-> TRUE, layers |-> MakeLayers(depth)]

\* Transformer.__init__, lines 165-190
Transformer_init(depth) ==
    IF ~divisible_by(depth, 2)
    THEN [ok |-> FALSE, layers |-> <<>>]
    ELSE [ok |-> TRUE, layers |-> MakeLayers(depth)]

NoModel ==
    [kind |-> "none", dim |-> 0, half_dim |-> 0, padding |-> 0,
     layers |-> <<>>, null_phoneme_id |-> 0, null_cond |-> 0]

NoCtor ==
    [kind |-> "none", dim |-> 0, depth |-> 0, kernel_size |-> 0,
     status |-> "none", failed_at |-> "none", built |-> <<>>]

\* DurationPredictor.__init__ (lines 230-252) and VoiceBox.__init__ (lines
\* 341-364): the submodules in the order they are assigned; the first failed
\* assert raises out of the constructor
Module_init(kind, dim, depth, kernel_size) ==
    LET sinu == IF kind = "VoiceBox" THEN LearnedSinusoidalPosEmb_init(dim)
                ELSE [ok |-> TRUE, half_dim |-> 0]
        conv == ConvPositionEmbed_init(dim, kernel_size)
        trf  == Transformer_init(depth)
        pre  == IF kind = "VoiceBox" THEN <<"sinu_pos_emb">> ELSE <<>>
        mid  == <<"to_phoneme_emb", "to_embed", "null_cond">>
        c    == [kind |-> kind, dim |-> dim, depth |-> depth,
                 kernel_size |-> kernel_size, status |-> "failed",
                 failed_at |-> "none", built |-> <<>>]
    IN  IF ~sinu.ok
        THEN [ctor |-> [c EXCEPT !.failed_at = "LearnedSinusoidalPosEmb"],
              model |-> NoModel]
        ELSE IF ~conv.ok
        THEN [ctor |-> [c EXCEPT !.failed_at = "ConvPositionEmbed",
                                 !.built = pre \o mid],
              model |-> NoModel]
        ELSE IF ~trf.ok
        THEN [ctor |-> [c EXCEPT !.failed_at = "Transformer",
                                 !.built = pre \o mid \o <<"conv_embed">>],
              model |-> NoModel]
        ELSE [ctor |-> [c EXCEPT !.status = "ok",
                                 !.built = pre \o mid \o <<"conv_embed", "transformer">>],
              model |-> [kind |-> kind, dim |-> dim, half_dim |-> sinu.half_dim,
                         padding |-> conv.padding, layers |-> trf.layers,
                         \* lines 232, 344: the last token is the null token
                         null_phoneme_id |-> NumPhonemeTokens,
                         \* lines 237, 349: torch.zeros(dim)
                         null_cond |-> 0]]

---------------------------------------------------------------------------
(* Transformer.forward, lines 192-211 *)

NoRun ==
    [status |-> "none", layer |-> 0, x |-> 0, skip_connects |-> <<>>,
     pushed |-> <<>>, popped |-> <<>>, max_stack |-> 0]

\* line 193: the state on entering the loop; x is named by the number of
\* layers it has been through
StartRun ==
    [status |-> "running", layer |-> 1, x |-> 0, skip_connects |-> <<>>,
     pushed |-> <<>>, popped |-> <<>>, max_stack |-> 0]

\* lines 202-203: skip_connects.append(x)
Push(r) ==
    LET st == Append(r.skip_connects, r.x)
    IN  [r EXCEPT !.skip_connects = st,
                  !.pushed = Append(@, [layer |-> r.layer, x |-> r.x]),
                  !.max_stack = IF Len(st) > @ THEN Len(st) ELSE @]

\* variant: the skip list read as a queue, pop(0) instead of pop()
Pop_fifo(r) ==
    IF r.skip_connects = <<>>
    THEN [r EXCEPT !.status = "failed"]
    ELSE [r EXCEPT !.skip_connects = Tail(@),
                   !.popped = Append(@, [layer |-> r.layer,
                                         x |-> Head(r.skip_connects)])]

\* lines 204-206: skip_connects.pop() takes the last element; popping an
\* empty list raises IndexError
Pop(r) ==
    IF r.skip_connects = <<>>
    THEN [r EXCEPT !.status = "failed"]
    ELSE LET top == r.skip_connects[Len(r.skip_connects)]
         IN  [r EXCEPT !.skip_connects = SubSeq(@, 1, Len(@) - 1),
                       !.popped = Append(@, [layer |-> r.layer, x |-> top])]

\* one iteration of the loop, lines 197-209
LayerStep(layers, r) ==
    LET skip_combiner == layers[r.layer]
        s == IF ~skip_combiner THEN Push(r) ELSE Pop(r)
    IN  IF s.status = "failed" THEN s
        ELSE [s EXCEPT !.x = r.layer, !.layer = r.layer + 1]

\* line 211: return x once the loop is over
Finish(layers, r) ==
    IF r.status = "running" /\ r.layer > Len(layers)
    THEN [r EXCEPT !.status = "returned"] ELSE r

RECURSIVE RunLayers(_, _)
RunLayers(layers, r) ==
    IF r.status /= "running" \/ r.layer > Len(layers) THEN Finish(layers, r)
    ELSE RunLayers(layers, LayerStep(layers, r))

\* the whole of Transformer.forward, as DurationPredictor and VoiceBox call it
Transformer_forward(layers) == RunLayers(layers, StartRun)

---------------------------------------------------------------------------
(* tensor helpers *)

Full(B, N, v) == [b \in 1..B |-> [n \in 1..N |-> v]]

\* prob_mask_like, lines 29-35: the masks the call can return.  prob is in
\* tenths; strictly between 0 and 1 the uniform draw can give any mask
prob_mask_like(B, prob) ==
    IF prob = 10 THEN {[b \in 1..B |-> TRUE]}
    ELSE IF prob = 0 THEN {[b \in 1..B |-> FALSE]}
    ELSE [1..B -> BOOLEAN]

\* variant: torch.where with its two value arguments exchanged
where_exchanged(cond_drop_mask, null, t) ==
    [b \in 1..Len(t) |-> [n \in 1..Len(t[b]) |->
        IF cond_drop_mask[b] THEN t[b][n] ELSE null]]

\* torch.where(rearrange(cond_drop_mask, '... -> ... 1 1'), null, t), lines
\* 286-296: the mask of a batch element is broadcast over its positions
where(cond_drop_mask, null, t) ==
    [b \in 1..Len(t) |-> [n \in 1..Len(t[b]) |->
        IF cond_drop_mask[b] THEN null ELSE t[b][n]]]

\* lines 298-303 (411-413): embedding lookup, concatenation along the feature
\* axis and to_embed, with the weights fixed to one instance
to_embed(x, phoneme_ids, cond) ==
    [b \in 1..Len(x) |-> [n \in 1..Len(x[b]) |->
        x[b][n] + 2 * (phoneme_ids[b][n] + 1) + 3 * cond[b][n]]]

\* ConvPositionEmbed.forward, lines 99-102, with all-ones taps: a window of
\* padding positions on each side, zeros beyond the ends
conv_embed(padding, row) ==
    [n \in 1..Len(row) |->
        SumSeq([j \in 1..(2 * padding + 1) |->
            LET k == n + j - padding - 1
            IN  IF k >= 1 /\ k <= Len(row) THEN row[k] ELSE 0])]

\* LearnedSinusoidalPosEmb.forward, lines 48-52: one row per batch element
sinu_pos_emb(times) == [b \in 1..Len(times) |-> 5 + times[b]]

RECURSIVE Prod(_)
Prod(shape) == IF shape = <<>> THEN 1 ELSE Head(shape) * Prod(Tail(shape))

\* einops.pack((time_emb, x), 'b * d'), line 420: per batch element the two
\* tensors are flattened over the * axes and concatenated; ps are the shapes
\* the * axes had, () for time_emb and (N,) for x
pack(time_emb, x) ==
    [packed |-> [b \in 1..Len(x) |-> <<time_emb[b]>> \o x[b]],
     ps |-> << <<>>, <<Len(x[1])>> >>]

\* variant: an unpack that cuts every piece from the front of the sequence
unpack_from_front(t, ps) ==
    [k \in 1..Len(ps) |-> [b \in 1..Len(t) |-> SubSeq(t[b], 1, Prod(ps[k]))]]

\* einops.unpack(x, ps, 'b * d'), line 428: piece k holds Prod(ps[k])
\* positions, taken in order from where piece k-1 ended
unpack(t, ps) ==
    LET size(k) == Prod(ps[k])
        start(k) == SumSeq([j \in 1..(k - 1) |-> size(j)])
    IN  [k \in 1..Len(ps) |->
            [b \in 1..Len(t) |-> SubSeq(t[b], start(k) + 1, start(k) + size(k))]]

\* the Transformer's output for one batch element: a value per position that
\* depends on the position's own input (residual) and on the whole sequence
\* (attention), kept in 1..4, each output tagged with its position in the
\* sequence
transformer_out(row) ==
    [i \in 1..Len(row) |->
        [pos |-> i, val |-> 1 + ((row[i] + SumSeq(row)) % 4)]]

---------------------------------------------------------------------------
(* the loss tail of forward *)

NoRet ==
    [kind |-> "none", loss |-> RatInt(0), pred |-> <<>>, loss_computed |-> FALSE,
     raw |-> <<>>, filled |-> <<>>, num |-> <<>>, den |-> <<>>]

Raise == [NoRet EXCEPT !.kind = "raise"]

\* F.l1_loss / F.mse_loss with reduction = 'none', then the mean over the
\* feature axis (lines 311-314, 438-441)
elem_loss(kind, a, t) ==
    IF kind = "DurationPredictor" THEN Abs(a - t) ELSE (a - t) * (a - t)

per_position(kind, x, target) ==
    [b \in 1..Len(x) |-> [n \in 1..Len(x[b]) |->
        elem_loss(kind, x[b][n].val, target[b][n])]]

\* loss.masked_fill(mask, 0.), lines 315, 442
masked_fill(loss, mask) ==
    [b \in 1..Len(loss) |-> [n \in 1..Len(loss[b]) |->
        IF mask[b][n] THEN 0 ELSE loss[b][n]]]

\* mask.sum(dim = -1), lines 320, 447: the number of True entries per element
mask_sum(mask) ==
    [b \in 1..Len(mask) |-> Cardinality({n \in 1..Len(mask[b]) : mask[b][n]})]

\* .clamp(min = 1e-5), lines 320, 447
clamp_min(c) == RatMax(RatInt(c), Rat(1, 100000))

\* lines 319-323, 446-450: num / den per batch element, then the batch mean
masked_mean(filled, mask) ==
    LET num == [b \in 1..Len(filled) |-> SumSeq(filled[b])]
        cnt == mask_sum(mask)
        den == [b \in 1..Len(filled) |-> clamp_min(cnt[b])]
        per == [b \in 1..Len(filled) |-> RatDiv(RatInt(num[b]), den[b])]
    IN  [num |-> num, den |-> den,
         loss |-> RatDiv(RatSumSeq(per), RatInt(Len(filled)))]

\* F.l1_loss(x, target) / F.mse_loss(x, target), lines 309, 436: mean over
\* every element
mean_loss(raw) ==
    RatDiv(RatInt(SumSeq(Flatten(raw))), RatInt(Len(raw) * Len(raw[1])))

\* VoiceBox.forward lines 430-450
VoiceBox_tail(x, target, mask) ==
    IF ~exists(target) THEN [NoRet EXCEPT !.kind = "pred", !.pred = x]
    ELSE LET raw == per_position("VoiceBox", x, target)
         IN  IF ~exists(mask)
             THEN [NoRet EXCEPT !.kind = "loss", !.loss_computed = TRUE,
                                !.raw = raw, !.loss = mean_loss(raw)]
             ELSE LET filled == masked_fill(raw, mask)
                      mm == masked_mean(filled, mask)
                  IN  [NoRet EXCEPT !.kind = "loss", !.loss_computed = TRUE,
                                    !.raw = raw, !.filled = filled,
                                    !.num = mm.num, !.den = mm.den,
                                    !.loss = mm.loss]

\* variant: a DurationPredictor tail with VoiceBox's return of the prediction
DurationPredictor_tail_with_return(x, target, mask) ==
    VoiceBox_tail(x, target, mask)

\* DurationPredictor.forward lines 308-323: both branches hand target to
\* F.l1_loss, which raises on None
DurationPredictor_tail(x, target, mask) ==
    IF ~exists(target) THEN Raise
    ELSE LET raw == per_position("DurationPredictor", x, target)
         IN  IF ~exists(mask)
             THEN [NoRet EXCEPT !.kind = "loss", !.loss_computed = TRUE,
                                !.raw = raw, !.loss = mean_loss(raw)]
             ELSE LET filled == masked_fill(raw, mask)
                      mm == masked_mean(filled, mask)
                  IN  [NoRet EXCEPT !.kind = "loss", !.loss_computed = TRUE,
                                    !.raw = raw, !.filled = filled,
                                    !.num = mm.num, !.den = mm.den,
                                    !.loss = mm.loss]

\* variant: the extrapolation taken from the wrong end,
\* logits + (null_logits - logits) * cond_scale
guide_from_cond(logits, null_logits, cond_scale) ==
    IF logits.kind = "loss"
    THEN [NoRet EXCEPT !.kind = "loss", !.loss_computed = TRUE,
             !.loss = RatAdd(logits.loss,
                        RatMul(RatSub(null_logits.loss, logits.loss),
                               RatInt(cond_scale)))]
    ELSE [NoRet EXCEPT !.kind = "pred",
             !.pred = [b \in 1..Len(logits.pred) |->
                        [n \in 1..Len(logits.pred[b]) |->
                          [pos |-> logits.pred[b][n].pos,
                           val |-> logits.pred[b][n].val
                                   + (null_logits.pred[b][n].val
                                      - logits.pred[b][n].val) * cond_scale]]]]

\* lines 267, 379: null_logits + (logits - null_logits) * cond_scale, on two
\* losses or, element by element, on two prediction tensors
guide(logits, null_logits, cond_scale) ==
    IF logits.kind = "loss"
    THEN [NoRet EXCEPT !.kind = "loss", !.loss_computed = TRUE,
             !.loss = RatAdd(null_logits.loss,
                        RatMul(RatSub(logits.loss, null_logits.loss),
                               RatInt(cond_scale)))]
    ELSE [NoRet EXCEPT !.kind = "pred",
             !.pred = [b \in 1..Len(logits.pred) |->
                        [n \in 1..Len(logits.pred[b]) |->
                          [pos |-> logits.pred[b][n].pos,
                           val |-> null_logits.pred[b][n].val
                                   + (logits.pred[b][n].val
                                      - null_logits.pred[b][n].val) * cond_scale]]]]

---------------------------------------------------------------------------
(* rotary positional embeddings, lines 57-78, and Attention.forward *)

DimHead == 2
Vals == {-1, 0, 1}
Vec == [1..DimHead -> Vals]

\* exact cosine and sine of an angle counted in quarter turns
Cos(a) == CASE a % 4 = 0 -> 1 [] a % 4 = 1 -> 0 [] a % 4 = 2 -> -1 [] OTHER -> 0

Sin(a) == CASE a % 4 = 0 -> 0 [] a % 4 = 1 -> 1 [] a % 4 = 2 -> 0 [] OTHER -> -1

\* RotaryEmbedding.forward, lines 67-71: positions 0..seq_len-1 times
\* inv_freq, repeated twice along the last axis.  For dim = 2 inv_freq is the
\* single frequency theta^0 = 1
RotaryEmbedding_forward(seq_len) ==
    [n \in 1..seq_len |-> [i \in 1..DimHead |-> (n - 1) * 1]]

\* rotate_half, lines 73-75: (x1, x2) -> (-x2, x1)
rotate_half(x) ==
    LET h == Len(x) \div 2
    IN  [i \in 1..Len(x) |-> IF i <= h THEN -x[i + h] ELSE x[i - h]]

\* apply_rotary_pos_emb(pos, t), lines 77-78, row by row
apply_rotary_pos_emb(pos, t) ==
    [n \in 1..Len(t) |-> [i \in 1..Len(t[n]) |->
        t[n][i] * Cos(pos[n][i]) + rotate_half(t[n])[i] * Sin(pos[n][i])]]

\* to_qkv and the chunk into q, k, v (lines 141-142) for one head, with the
\* projection weights fixed to one instance; x is the normalised input
to_qkv(x) ==
    [q |-> x,
     k |-> [n \in 1..Len(x) |-> <<x[n][2], x[n][1]>>],
     v |-> [n \in 1..Len(x) |-> <<x[n][1] + x[n][2], x[n][1] - x[n][2]>>]]

NoAtt ==
    [status |-> "none", rotary_emb |-> <<>>, q |-> <<>>, k |-> <<>>, v |-> <<>>,
     q_out |-> <<>>, k_out |-> <<>>, v_out |-> <<>>]

\* Attention.forward lines 141-147: what is handed to attend.  Line 145 calls
\* apply_rotary_pos_emb(t, rotary_emb): the query or key is bound to the
\* parameter pos and the table to the parameter t
Attention_forward(x, rotary_emb) ==
    LET p == to_qkv(x)
    IN  [status |-> "done", rotary_emb |-> rotary_emb,
         q |-> p.q, k |-> p.k, v |-> p.v,
         q_out |-> IF exists(rotary_emb)
                   THEN apply_rotary_pos_emb(p.q, rotary_emb) ELSE p.q,
         k_out |-> IF exists(rotary_emb)
                   THEN apply_rotary_pos_emb(p.k, rotary_emb) ELSE p.k,
         v_out |-> p.v]

---------------------------------------------------------------------------
(* the calls *)

NoArgs ==
    [B |-> 0, N |-> 0, x_dim |-> 0, cond_dim |-> 0, x |-> <<>>,
     phoneme_ids |-> <<>>, cond |-> <<>>, times |-> <<>>, target |-> <<>>,
     mask |-> <<>>, cond_drop_prob |-> 0, cond_scale |-> 1]

NoFwd ==
    [cond_drop_prob |-> 0, mode |-> FALSE, done |-> <<>>,
     cond_drop_mask |-> <<>>, cond |-> <<>>, phoneme_ids |-> <<>>,
     seq |-> <<>>, ps |-> <<>>, out |-> <<>>, x |-> <<>>]

NoResult == [status |-> "none", error |-> "none", value |-> NoRet]

TimeVals == {1}
TargetVals == {0}

\* the arguments a caller can pass to forward of the module m: x as wide as
\* the module's dim, cond of any width, one value per tensor for x,
\* phoneme_ids, cond and times, any mask or none, a target or none
ForwardArgs(m) ==
    UNION {
      { [NoArgs EXCEPT !.B = B, !.N = N, !.x_dim = m.dim, !.cond_dim = cd,
                       !.x = Full(B, N, xv),
                       !.phoneme_ids = Full(B, N, id),
                       !.cond = Full(B, N, cv),
                       !.times = IF m.kind = "VoiceBox"
                                 THEN [b \in 1..B |-> tv] ELSE None,
                       !.target = tg, !.mask = mk] :
          cd \in Dims, xv \in XVals, id \in PhonemeIds, cv \in CondVals,
          tv \in TimeVals,
          tg \in {None} \cup {Full(B, N, t) : t \in TargetVals},
          mk \in {None} \cup [1..B -> [1..N -> BOOLEAN]] } :
      B \in BatchSizes, N \in 1..MaxLen }

\* the locals of forward on entry
StartPass(a, prob, mode) ==
    [NoFwd EXCEPT !.cond_drop_prob = prob, !.mode = mode,
                  !.cond = a.cond, !.phoneme_ids = a.phoneme_ids]

\* torch.inference_mode() as a decorator (lines 254, 366): entering sets the
\* flag, leaving (by return or by exception) puts back the flag found on entry
inference_mode_enter == TRUE

\* variant: leaving the context switches inference mode on for good
inference_mode_exit_leak(saved) == TRUE

inference_mode_exit(saved) == saved

\* the flag once the running call is over
ModeAfterCall ==
    IF entry = "forward_with_cond_scale" THEN inference_mode_exit(mode_before)
    ELSE inference_mode

Init ==
    /\ model = NoModel
    /\ ctor = NoCtor
    /\ pc = "new"
    /\ entry = "none"
    /\ args = NoArgs
    /\ npass = 0
    /\ fwd = NoFwd
    /\ passes = <<>>
    /\ result = NoResult
    /\ inference_mode = FALSE
    /\ mode_before = FALSE
    /\ tr = NoRun
    /\ att = NoAtt

\* DurationPredictor(...) or VoiceBox(...): a failed assert leaves no module
Construct ==
    /\ pc = "new"
    /\ \E kind \in {"DurationPredictor", "VoiceBox"}, dim \in Dims,
          depth \in Depths, kernel_size \in KernelSizes :
         LET r == Module_init(kind, dim, depth, kernel_size)
         IN  /\ ctor' = r.ctor
             /\ model' = r.model
             /\ pc' = IF r.ctor.status = "ok" THEN "idle" ELSE "aborted"
    /\ UNCHANGED <<entry, args, npass, fwd, passes, result, inference_mode,
                   mode_before, tr, att>>

\* between calls the caller enters or leaves an inference-mode context of its own
CallerSwitchesMode ==
    /\ pc = "idle"
    /\ inference_mode' = ~inference_mode
    /\ UNCHANGED <<model, ctor, pc, entry, args, npass, fwd, passes, result,
                   mode_before, tr, att>>

\* model.transformer.layers[i][1](x, rotary_emb = ...): the rotary step of
\* Attention.forward on a sequence of seq_len positions
CallAttention ==
    /\ pc = "idle"
    /\ \E seq_len \in 1..MaxLen :
         \E x \in [1..seq_len -> Vec],
            rotary_emb \in {None, RotaryEmbedding_forward(seq_len)} :
           att' = Attention_forward(x, rotary_emb)
    /\ entry' = "Attention.forward"
    /\ pc' = "done"
    /\ UNCHANGED <<model, ctor, args, npass, fwd, passes, result,
                   inference_mode, mode_before, tr>>

\* model.transformer(x): line 193
CallTransformer ==
    /\ pc = "idle"
    /\ entry' = "Transformer.forward"
    /\ tr' = StartRun
    /\ pc' = "layers"
    /\ UNCHANGED <<model, ctor, args, npass, fwd, passes, result,
                   inference_mode, mode_before, att>>

\* one iteration of the loop of Transformer.forward
TransformerLayer ==
    /\ pc = "layers"
    /\ tr.layer <= Len(model.layers)
    /\ tr' = LayerStep(model.layers, tr)
    /\ pc' = IF tr'.status = "failed" THEN "done" ELSE "layers"
    /\ UNCHANGED <<model, ctor, entry, args, npass, fwd, passes, result,
                   inference_mode, mode_before, att>>

\* line 211
TransformerReturn ==
    /\ pc = "layers"
    /\ tr.layer > Len(model.layers)
    /\ tr' = Finish(model.layers, tr)
    /\ pc' = "done"
    /\ UNCHANGED <<model, ctor, entry, args, npass, fwd, passes, result,
                   inference_mode, mode_before, att>>

\* model(x, phoneme_ids = ..., cond = ..., ...): a plain call of forward
CallForward ==
    /\ pc = "idle"
    /\ \E a \in ForwardArgs(model), prob \in Probs :
         /\ args' = [a EXCEPT !.cond_drop_prob = prob]
         /\ fwd' = StartPass(a, prob, inference_mode)
    /\ entry' = "forward"
    /\ npass' = 1
    /\ mode_before' = inference_mode
    /\ pc' = "assert"
    /\ UNCHANGED <<model, ctor, passes, result, inference_mode, tr, att>>

\* model.forward_with_cond_scale(x, ..., cond_scale = ...): the decorator
\* enters inference mode, then line 261 (373) calls forward with
\* cond_drop_prob = 0
CallForwardWithCondScale ==
    /\ pc = "idle"
    /\ \E a \in ForwardArgs(model), cond_scale \in Scales :
         /\ args' = [a EXCEPT !.cond_scale = cond_scale]
         /\ fwd' = StartPass(a, 0, inference_mode_enter)
    /\ entry' = "forward_with_cond_scale"
    /\ mode_before' = inference_mode
    /\ inference_mode' = inference_mode_enter
    /\ npass' = 1
    /\ pc' = "assert"
    /\ UNCHANGED <<model, ctor, passes, result, tr, att>>

\* an exception raised inside forward leaves the call, through the decorator
\* when the caller came in by forward_with_cond_scale
Raised(error) ==
    /\ result' = [status |-> "raised", error |-> error, value |-> NoRet]
    /\ inference_mode' = ModeAfterCall
    /\ pc' = "done"
    /\ UNCHANGED <<model, ctor, entry, args, npass, fwd, passes, mode_before,
                   tr, att>>

\* the call returns value to the caller
Returned(value) ==
    /\ result' = [status |-> "returned", error |-> "none", value |-> value]
    /\ inference_mode' = ModeAfterCall
    /\ pc' = "done"

\* line 279 (392): assert cond.shape[-1] == x.shape[-1]
ForwardAssert ==
    /\ pc = "assert"
    /\ IF args.cond_dim /= args.x_dim
       THEN Raised("AssertionError")
       ELSE /\ fwd' = [fwd EXCEPT !.done = Append(@, "assert")]
            /\ pc' = "cfg"
            /\ UNCHANGED <<model, ctor, entry, args, npass, passes, result,
                           inference_mode, mode_before, tr, att>>

\* lines 283-296 (396-409): classifier free guidance
ForwardCFG ==
    /\ pc = "cfg"
    /\ IF fwd.cond_drop_prob > 0
       THEN \E cond_drop_mask \in prob_mask_like(args.B, fwd.cond_drop_prob) :
              fwd' = [fwd EXCEPT
                        !.cond_drop_mask = cond_drop_mask,
                        !.cond = where(cond_drop_mask, model.null_cond, fwd.cond),
                        !.phoneme_ids = where(cond_drop_mask, model.null_phoneme_id,
                                              fwd.phoneme_ids),
                        !.done = Append(@, "cfg")]
       ELSE fwd' = [fwd EXCEPT !.done = Append(@, "cfg")]
    /\ pc' = "embed"
    /\ UNCHANGED <<model, ctor, entry, args, npass, passes, result,
                   inference_mode, mode_before, tr, att>>

\* lines 298-305 (411-420): embed, project, add the convolutional positions
\* and, in VoiceBox, pack the time embedding in front
ForwardEmbed ==
    /\ pc = "embed"
    /\ LET e == to_embed(args.x, fwd.phoneme_ids, fwd.cond)
           x == [b \in 1..args.B |->
                   [n \in 1..args.N |->
                       conv_embed(model.padding, e[b])[n] + e[b][n]]]
           pk == IF model.kind = "VoiceBox"
                 THEN pack(sinu_pos_emb(args.times), x)
                 ELSE [packed |-> x, ps |-> <<>>]
       IN  fwd' = [fwd EXCEPT !.seq = pk.packed, !.ps = pk.ps,
                              !.done = Append(@, "embed")]
    /\ pc' = "transformer"
    /\ UNCHANGED <<model, ctor, entry, args, npass, passes, result,
                   inference_mode, mode_before, tr, att>>

\* line 306 (424-428): the transformer and, in VoiceBox, the unpack that
\* drops the time token
ForwardTransformer ==
    /\ pc = "transformer"
    /\ LET run == Transformer_forward(model.layers)
           out == [b \in 1..args.B |-> transformer_out(fwd.seq[b])]
       IN  IF run.status /= "returned"
           THEN Raised("IndexError")
           ELSE /\ tr' = run
                /\ fwd' = [fwd EXCEPT
                             !.out = out,
                             !.x = IF model.kind = "VoiceBox"
                                   THEN unpack(out, fwd.ps)[2] ELSE out,
                             !.done = Append(@, "transformer")]
                /\ pc' = "tail"
                /\ UNCHANGED <<model, ctor, entry, args, npass, passes, result,
                               inference_mode, mode_before, att>>

\* lines 308-323 (430-450): the loss or the prediction, handed back to the
\* caller of forward
ForwardTail ==
    /\ pc = "tail"
    /\ LET ret == IF model.kind = "VoiceBox"
                  THEN VoiceBox_tail(fwd.x, args.target, args.mask)
                  ELSE DurationPredictor_tail(fwd.x, args.target, args.mask)
           rec == [cond_drop_prob |-> fwd.cond_drop_prob, mode |-> fwd.mode,
                   ret |-> ret]
       IN  IF ret.kind = "raise"
           THEN Raised("AttributeError")
           ELSE /\ passes' = Append(passes, rec)
                /\ fwd' = [fwd EXCEPT !.done = Append(@, "tail")]
                /\ IF entry = "forward"
                   THEN Returned(ret)
                   ELSE /\ pc' = IF npass = 1 THEN "check_scale" ELSE "combine"
                        /\ UNCHANGED <<result, inference_mode>>
                /\ UNCHANGED <<model, ctor, entry, args, npass, mode_before,
                               tr, att>>

\* lines 263-266 (375-378): return the first result when cond_scale == 1,
\* else call forward again with cond_drop_prob = 1
GuidedCheckScale ==
    /\ pc = "check_scale"
    /\ IF args.cond_scale = 1
       THEN /\ Returned(passes[1].ret)
            /\ UNCHANGED <<npass, fwd>>
       ELSE /\ npass' = 2
            /\ fwd' = StartPass(args, 10, inference_mode)
            /\ pc' = "assert"
            /\ UNCHANGED <<result, inference_mode>>
    /\ UNCHANGED <<model, ctor, entry, args, passes, mode_before, tr, att>>

\* line 267 (379)
GuidedCombine ==
    /\ pc = "combine"
    /\ Returned(guide(passes[1].ret, passes[2].ret, args.cond_scale))
    /\ UNCHANGED <<model, ctor, entry, args, npass, fwd, passes, mode_before,
                   tr, att>>

\* the caller is done with the call's result and is ready for the next call;
\* the module and the inference-mode flag are what lasts between calls
Discard ==
    /\ pc = "done"
    /\ pc' = "idle"
    /\ entry' = "none"
    /\ args' = NoArgs
    /\ npass' = 0
    /\ fwd' = NoFwd
    /\ passes' = <<>>
    /\ result' = NoResult
    /\ mode_before' = FALSE
    /\ tr' = NoRun
    /\ att' = NoAtt
    /\ UNCHANGED <<model, ctor, inference_mode>>

Next ==
    \/ Construct
    \/ CallerSwitchesMode
    \/ CallAttention
    \/ CallTransformer
    \/ TransformerLayer
    \/ TransformerReturn
    \/ CallForward
    \/ CallForwardWithCondScale
    \/ ForwardAssert
    \/ ForwardCFG
    \/ ForwardEmbed
    \/ ForwardTransformer
    \/ ForwardTail
    \/ GuidedCheckScale
    \/ GuidedCombine
    \/ Discard

Spec == Init /\ [][Next]_vars

---------------------------------------------------------------------------
(* Properties *)

Guided == entry = "forward_with_cond_scale"

Plain == entry = "forward"

InForward == pc \in {"assert", "cfg", "embed", "transformer", "tail"}

Depth == Len(model.layers)

\* C1: forward_with_cond_scale runs forward first with cond_drop_prob = 0;
\* with cond_scale = 1 it returns that pass's result and runs no second pass;
\* with any other cond_scale it runs exactly one more pass, with
\* cond_drop_prob = 1, and returns null + (cond - null) * cond_scale.
C1_GuidedPasses ==
    Guided =>
      /\ npass \in {1, 2}
      /\ Len(passes) <= npass
      /\ InForward => fwd.cond_drop_prob = (IF npass = 1 THEN 0 ELSE 10)
      /\ \A i \in 1..Len(passes) :
           passes[i].cond_drop_prob = (IF i = 1 THEN 0 ELSE 10)
      /\ args.cond_scale = 1 => npass = 1
      /\ result.status = "returned" =>
           IF args.cond_scale = 1
           THEN Len(passes) = 1 /\ result.value = passes[1].ret
           ELSE /\ Len(passes) = 2
                /\ LET c == passes[1].ret
                       u == passes[2].ret
                       r == result.value
                   IN  /\ r.kind = c.kind /\ c.kind = u.kind
                       /\ c.kind = "loss" =>
                            r.loss = RatAdd(u.loss,
                                       RatMul(RatSub(c.loss, u.loss),
                                              RatInt(args.cond_scale)))
                       /\ c.kind = "pred" =>
                            /\ Len(r.pred) = args.B
                            /\ \A b \in 1..args.B :
                                 /\ Len(r.pred[b]) = args.N
                                 /\ \A n \in 1..args.N :
                                      r.pred[b][n].val =
                                        u.pred[b][n].val
                                        + (c.pred[b][n].val - u.pred[b][n].val)
                                          * args.cond_scale

\* a guided call that returned an extrapolation of two different predictions
C1_Witness ==
    /\ Guided /\ pc = "done" /\ result.status = "returned"
    /\ args.cond_scale = 3 /\ Len(passes) = 2
    /\ result.value.kind = "pred"
    /\ passes[1].ret.pred /= passes[2].ret.pred
    /\ result.value.pred /= passes[1].ret.pred

\* the masked mean as the claim words it: the losses of the positions the
\* mask leaves in, summed and divided by the number of those positions
\* (floored at 1e-5), then the mean over the batch
ValidCount(mask, b) == Cardinality({n \in 1..Len(mask[b]) : ~mask[b][n]})

MeanOverValid(raw, mask) ==
    LET per == [b \in 1..Len(raw) |->
                  RatDiv(RatInt(SumSeq([n \in 1..Len(raw[b]) |->
                                   IF mask[b][n] THEN 0 ELSE raw[b][n]])),
                         RatMax(RatInt(ValidCount(mask, b)), Rat(1, 100000)))]
    IN  RatDiv(RatSumSeq(per), RatInt(Len(raw)))

\* C2: with a mask (True = excluded), the loss forward returns is, per batch
\* element, the sum of the per-position losses at mask-False positions
\* divided by the number of mask-False positions (floored at 1e-5), averaged
\* over the batch.
C2_MaskedMeanOverValid ==
    \A i \in 1..Len(passes) :
      (exists(args.mask) /\ passes[i].ret.kind = "loss") =>
        /\ \A b \in 1..args.B : \A n \in 1..args.N :
             args.mask[b][n] => passes[i].ret.filled[b][n] = 0
        /\ passes[i].ret.loss = MeanOverValid(passes[i].ret.raw, args.mask)

\* C3: in Transformer.forward the input pushed by first-half layer k is
\* popped by layer depth+1-k and by no other; no pop finds the stack empty,
\* the stack never holds more than depth/2 entries and is empty at return;
\* a layer has a skip combiner iff it is in the second half.
C3_SkipPairing ==
    /\ \A l \in 1..Depth : model.layers[l] <=> (l > Depth \div 2)
    /\ tr.status /= "none" =>
         /\ tr.status /= "failed"
         /\ Len(tr.skip_connects) <= Depth \div 2
         /\ tr.max_stack <= Depth \div 2
         /\ \A i \in 1..Len(tr.pushed) : tr.pushed[i].layer <= Depth \div 2
         /\ \A j \in 1..Len(tr.popped) :
              /\ tr.popped[j].layer > Depth \div 2
              /\ \E i \in 1..Len(tr.pushed) :
                   /\ tr.pushed[i].layer = Depth + 1 - tr.popped[j].layer
                   /\ tr.pushed[i].x = tr.popped[j].x
              /\ \A j2 \in 1..Len(tr.popped) :
                   tr.popped[j2].x = tr.popped[j].x => j2 = j
         /\ tr.status = "returned" =>
              /\ tr.skip_connects = <<>>
              /\ Len(tr.pushed) = Depth \div 2
              /\ Len(tr.popped) = Depth \div 2
              /\ \A k \in 1..(Depth \div 2) :
                   Cardinality({j \in 1..Len(tr.popped) :
                       /\ tr.popped[j].layer = Depth + 1 - k
                       /\ \E i \in 1..Len(tr.pushed) :
                            /\ tr.pushed[i].layer = k
                            /\ tr.pushed[i].x = tr.popped[j].x}) = 1

\* a four-layer Transformer.forward that has returned
C3_Witness ==
    /\ entry = "Transformer.forward" /\ tr.status = "returned"
    /\ Depth = 4 /\ Len(tr.popped) = 2 /\ tr.max_stack = 2

\* the rotation of the rows of t by the rows of angles
Rotated(angles, t) ==
    [n \in 1..Len(t) |-> [i \in 1..Len(t[n]) |->
        t[n][i] * Cos(angles[n][i]) + rotate_half(t[n])[i] * Sin(angles[n][i])]]

Negated(angles) ==
    [n \in 1..Len(angles) |-> [i \in 1..Len(angles[n]) |-> -angles[n][i]]]

NormSq(v) == SumSeq([i \in 1..Len(v) |-> v[i] * v[i]])

\* C4: given a rotary table, Attention.forward replaces every query and key
\* vector t by t*cos(angle) + rotate_half(t)*sin(angle), angle being the
\* table's row for t's position, and leaves the values alone; rotating the
\* result by the negated angles gives t back, and the norm of t is kept.
C4_RotaryInAttention ==
    (att.status = "done" /\ exists(att.rotary_emb)) =>
      /\ att.q_out = Rotated(att.rotary_emb, att.q)
      /\ att.k_out = Rotated(att.rotary_emb, att.k)
      /\ att.v_out = att.v
      /\ Rotated(Negated(att.rotary_emb), att.q_out) = att.q
      /\ Rotated(Negated(att.rotary_emb), att.k_out) = att.k
      /\ \A n \in 1..Len(att.q) :
           /\ NormSq(att.q_out[n]) = NormSq(att.q[n])
           /\ NormSq(att.k_out[n]) = NormSq(att.k[n])

AllTrue(row) == \A n \in 1..Len(row) : row[n]

\* C6: for every mask the denominator of the masked mean is at least 1e-5,
\* the loss is finite and no error is raised; for a fully-True mask (all
\* positions excluded) the denominator is the 1e-5 floor itself.
C6_DenominatorFloor ==
    /\ \A i \in 1..Len(passes) :
         (exists(args.mask) /\ passes[i].ret.kind = "loss") =>
           /\ Finite(passes[i].ret.loss)
           /\ \A b \in 1..args.B :
                /\ RatLeq(Rat(1, 100000), passes[i].ret.den[b])
                /\ AllTrue(args.mask[b]) =>
                     passes[i].ret.den[b] = Rat(1, 100000)
    /\ (exists(args.mask) /\ exists(args.target) /\ args.cond_dim = args.x_dim)
         => result.status /= "raised"

\* C5: a forward pass with cond_drop_prob = 1.0 feeds the null conditioning
\* vector at every position of every batch element and embeds the null
\* phoneme id (= num_phoneme_tokens) everywhere, whatever was passed in.
C5_FullDropFeedsNull ==
    ((Plain \/ Guided) /\ fwd.cond_drop_prob = 10 /\ Len(fwd.done) >= 2) =>
      /\ model.null_phoneme_id = NumPhonemeTokens
      /\ Len(fwd.cond) = args.B /\ Len(fwd.phoneme_ids) = args.B
      /\ \A b \in 1..args.B :
           /\ Len(fwd.cond[b]) = args.N /\ Len(fwd.phoneme_ids[b]) = args.N
           /\ \A n \in 1..args.N :
                /\ fwd.cond[b][n] = model.null_cond
                /\ fwd.phoneme_ids[b][n] = NumPhonemeTokens

\* a fully dropped pass over two batch elements whose cond and phoneme ids
\* were not the null ones, about to embed
C5_Witness ==
    /\ Plain /\ pc = "embed" /\ fwd.cond_drop_prob = 10 /\ args.B = 2
    /\ args.cond[2][1] /= model.null_cond
    /\ args.phoneme_ids[2][1] /= model.null_phoneme_id
    /\ fwd.cond[2][1] = model.null_cond

\* C7: VoiceBox.forward with target = None returns one row per batch element
\* and N positions per row: one time token is packed in front of the N
\* positions, the transformer sees N+1, and the unpack hands back the
\* transformer's outputs 2..N+1 in their order.
C7_VoiceBoxShape ==
    (model.kind = "VoiceBox" /\ (Plain \/ Guided)) =>
      /\ Len(fwd.done) >= 3 =>
           \A b \in 1..args.B :
             /\ Len(fwd.seq[b]) = args.N + 1
             /\ fwd.seq[b][1] = sinu_pos_emb(args.times)[b]
      /\ Len(fwd.done) >= 4 =>
           /\ Len(fwd.x) = args.B
           /\ \A b \in 1..args.B :
                /\ Len(fwd.out[b]) = args.N + 1
                /\ Len(fwd.x[b]) = args.N
                /\ \A n \in 1..args.N :
                     /\ fwd.x[b][n] = fwd.out[b][n + 1]
                     /\ fwd.x[b][n].pos = n + 1
      /\ (Len(fwd.done) = 5 /\ ~exists(args.target)) =>
           /\ passes[Len(passes)].ret.kind = "pred"
           /\ passes[Len(passes)].ret.pred = fwd.x
      /\ (Plain /\ result.status = "returned" /\ ~exists(args.target)) =>
           /\ Len(result.value.pred) = args.B
           /\ \A b \in 1..args.B :
                /\ Len(result.value.pred[b]) = args.N
                /\ \A n \in 1..args.N :
                     result.value.pred[b][n] = fwd.out[b][n + 1]

\* a VoiceBox prediction for two sequences of two positions
C7_Witness ==
    /\ model.kind = "VoiceBox" /\ Plain /\ result.status = "returned"
    /\ ~exists(args.target) /\ args.B = 2 /\ args.N = 2
    /\ Len(result.value.pred[2]) = 2

\* C8: a violated precondition aborts at once and for good: odd depth, even
\* kernel size and (VoiceBox) odd dim fail the construction, nothing later is
\* built and no module exists; a forward call whose cond is not as wide as x
\* fails at the assert, before any substitution, embedding or transformer
\* work and without a second pass; with no precondition violated none of
\* these failures occurs.
C8_Preconditions ==
    /\ ctor.status /= "none" =>
         /\ ctor.status = "failed" <=>
              \/ ctor.kind = "VoiceBox" /\ ctor.dim % 2 /= 0
              \/ ctor.kernel_size % 2 = 0
              \/ ctor.depth % 2 /= 0
         /\ (ctor.kind = "VoiceBox" /\ ctor.dim % 2 /= 0) =>
              ctor.failed_at = "LearnedSinusoidalPosEmb" /\ ctor.built = <<>>
         /\ ctor.kernel_size % 2 = 0 =>
              /\ ctor.failed_at \in {"LearnedSinusoidalPosEmb", "ConvPositionEmbed"}
              /\ \A i \in 1..Len(ctor.built) :
                   ctor.built[i] \notin {"conv_embed", "transformer"}
         /\ ctor.depth % 2 /= 0 =>
              /\ ctor.failed_at /= "none"
              /\ \A i \in 1..Len(ctor.built) : ctor.built[i] /= "transformer"
         /\ ctor.status = "failed" =>
              /\ model = NoModel /\ pc = "aborted" /\ entry = "none"
              /\ result = NoResult
         /\ ctor.status = "ok" =>
              /\ ctor.failed_at = "none"
              /\ model.kind = ctor.kind /\ Depth = ctor.depth
    /\ ((Plain \/ Guided) /\ args.cond_dim /= args.x_dim) =>
         /\ pc \in {"assert", "done"}
         /\ fwd.done = <<>> /\ passes = <<>> /\ npass = 1
         /\ fwd.cond_drop_mask = None
         /\ fwd.cond = args.cond /\ fwd.phoneme_ids = args.phoneme_ids
         /\ fwd.seq = <<>> /\ fwd.out = <<>> /\ tr = NoRun
         /\ pc = "done" =>
              result.status = "raised" /\ result.error = "AssertionError"
    /\ ((Plain \/ Guided) /\ args.cond_dim = args.x_dim) =>
         result.error /= "AssertionError"

\* a guided call on a mismatched cond that has failed at the assert
C8_Witness ==
    /\ Guided /\ pc = "done" /\ args.cond_dim /= args.x_dim
    /\ args.cond_scale /= 1
    /\ result.error = "AssertionError"

\* a VoiceBox construction that has failed on the odd depth
C8_CtorWitness ==
    /\ ctor.status = "failed" /\ ctor.failed_at = "Transformer"
    /\ ctor.kind = "VoiceBox" /\ pc = "aborted"

\* C9: inference mode is on for the whole of forward_with_cond_scale, both
\* passes included, and when the call returns or fails the flag is what it
\* was before the call; a plain forward call runs under the caller's flag
\* and leaves it alone.
C9_ScopedInferenceMode ==
    /\ Guided =>
         /\ pc /= "done" => inference_mode = TRUE
         /\ (InForward \/ Len(fwd.done) > 0) => fwd.mode = TRUE
         /\ \A i \in 1..Len(passes) : passes[i].mode = TRUE
         /\ pc = "done" => inference_mode = mode_before
    /\ Plain =>
         /\ inference_mode = mode_before
         /\ fwd.mode = mode_before
         /\ \A i \in 1..Len(passes) : passes[i].mode = mode_before

\* a guided call made with inference mode off that failed in its first pass
C9_Witness ==
    /\ Guided /\ pc = "done" /\ result.status = "raised"
    /\ mode_before = FALSE /\ inference_mode = FALSE

\* a guided call made with inference mode off that returned after two passes
C9_ReturnWitness ==
    /\ Guided /\ pc = "done" /\ result.status = "returned"
    /\ Len(passes) = 2 /\ mode_before = FALSE

\* C10: VoiceBox.forward with target = None returns the prediction and
\* computes no loss, mask or no mask; DurationPredictor.forward never returns
\* a prediction: every pass it completes computed an L1 loss, and a call
\* with target = None fails in the loss instead of yielding one.
C10_ReturnPaths ==
    /\ model.kind = "VoiceBox" =>
         \A i \in 1..Len(passes) :
           IF ~exists(args.target)
           THEN /\ passes[i].ret.kind = "pred"
                /\ ~passes[i].ret.loss_computed
                /\ passes[i].ret.raw = <<>>
           ELSE passes[i].ret.kind = "loss" /\ passes[i].ret.loss_computed
    /\ (model.kind = "VoiceBox" /\ Plain /\ pc = "done"
          /\ ~exists(args.target) /\ args.cond_dim = args.x_dim) =>
         result.status = "returned" /\ result.value.kind = "pred"
    /\ model.kind = "DurationPredictor" =>
         /\ \A i \in 1..Len(passes) :
              /\ passes[i].ret.kind = "loss"
              /\ passes[i].ret.loss_computed
              /\ exists(args.target)
         /\ result.value.kind /= "pred"
         /\ ((Plain \/ Guided) /\ ~exists(args.target) /\ pc = "done"
               /\ args.cond_dim = args.x_dim) =>
              /\ result.status = "raised"
              /\ result.error = "AttributeError"
              /\ passes = <<>>

\* a DurationPredictor reached through forward_with_cond_scale without a
\* target, with a mask: the call has failed
C10_Witness ==
    /\ model.kind = "DurationPredictor" /\ Guided /\ pc = "done"
    /\ ~exists(args.target) /\ exists(args.mask)
    /\ result.status = "raised" /\ result.error = "AttributeError"

\* a VoiceBox called without a target and with a mask: the prediction
C10_VoiceBoxWitness ==
    /\ model.kind = "VoiceBox" /\ Plain /\ pc = "done"
    /\ ~exists(args.target) /\ exists(args.mask)
    /\ result.value.kind = "pred"

====
